---- MODULE Spec2Model ----
(***************************************************************************)
(* A model of src/collect_data.py: SystemMonitor, its sampling loop (run), *)
(* the snapshot build (_collect_snapshot), the process resolver            *)
(* (_find_processes_by_name), the metric aggregator                        *)
(* (_aggregate_process_metrics) and the signal handler.                    *)
(*                                                                         *)
(* Strings are sequences of one-character strings, so that str.lower() and *)
(* the substring test `a in b` are computed and not assumed.  Floats are   *)
(* represented by integers; the process table only holds values for which  *)
(* rss / total * 100 is exact.                                             *)
(***************************************************************************)
EXTENDS Integers, Sequences, FiniteSets, TLC

VARIABLES
    world,          \* the provider (psutil / OS) the run executes against
    foreground_app, \* self.foreground_app
    background_app, \* self.background_app
    interval,       \* self.interval
    snapshots,      \* self.snapshots
    running,        \* self.running
    pc,             \* position of the main thread inside run()
    exc,            \* exception that left run() uncaught ("" when none)
    loc,            \* locals of the _collect_snapshot call in progress
    readAt,         \* per local of _collect_snapshot: tick in which it was assigned
    snapshot,       \* run()'s local `snapshot`
    file,           \* the destination of df.to_csv(output_path)
    report,         \* what the flush block printed
    progress,       \* the progress lines printed, as <<count, system cpu>>
    tick,           \* number of loop iterations begun
    sigPhase,       \* where the main thread was when the first signal arrived
    sigTick,        \* the tick in which the first signal arrived
    built,          \* the snapshots _collect_snapshot returned, with provenance
    writes,         \* number of df.to_csv calls made
    arg,            \* argument of a resolver/aggregator/flush call under test
    ret             \* its result

vars == <<world, foreground_app, background_app, interval, snapshots, running,
          pc, exc, loc, readAt, snapshot, file, report, progress, tick,
          sigPhase, sigTick, built, writes, arg, ret>>

-----------------------------------------------------------------------------
(* Bounds *)

MaxTicks == 3

-----------------------------------------------------------------------------
(* Strings *)

Upper == <<"A","B","C","D","E","F","G","H","I","J","K","L","M",
           "N","O","P","Q","R","S","T","U","V","W","X","Y","Z">>
LowerCase == <<"a","b","c","d","e","f","g","h","i","j","k","l","m",
               "n","o","p","q","r","s","t","u","v","w","x","y","z">>

\* str.lower() on one character
LowerChar(c) ==
    IF \E i \in DOMAIN Upper : Upper[i] = c
    THEN LowerCase[CHOOSE i \in DOMAIN Upper : Upper[i] = c]
    ELSE c

\* str.lower()
Lower(s) == [i \in DOMAIN s |-> LowerChar(s[i])]

\* Python's `pat in s` on strings
StrIn(pat, s) ==
    \E off \in 0..(Len(s) - Len(pat)) :
        \A i \in 1..Len(pat) : s[off + i] = pat[i]

S_Code       == <<"C","o","d","e">>
S_code       == <<"c","o","d","e">>
S_CODE       == <<"C","O","D","E">>
S_CodeHelper == <<"C","o","d","e"," ","H","e","l","p","e","r">>
S_VSCODE     == <<"V","S","C","O","D","E">>
S_decode     == <<"d","e","c","o","d","e">>
S_Cod        == <<"C","o","d">>
S_Spotify    == <<"S","p","o","t","i","f","y">>

-----------------------------------------------------------------------------
(* The provider *)

\* psutil.NoSuchProcess, psutil.AccessDenied, psutil.ZombieProcess
PerProcessErrors == {"NoSuchProcess", "AccessDenied", "ZombieProcess"}

\* What process_iter(['pid','name']) can give for one process: its name, None
\* (the attribute could not be read), or a per-process error on access.
InfoStatus == {"ok", "none"} \cup PerProcessErrors

\* What one per-process read can do: return, fail per-process, or fail fatally.
ReadStatus == {"ok", "fatal"} \cup PerProcessErrors

Column == <<"timestamp", "total_system_cpu_percent", "total_system_memory_percent",
            "network_bytes_sent", "network_bytes_recv",
            "app_A_cpu_percent", "app_A_memory_percent",
            "app_B_cpu_percent", "app_B_memory_percent">>

Range(s) == {s[i] : i \in DOMAIN s}


RECURSIVE SortedSeq(_)
\* the elements of a finite set of integers in ascending order
SortedSeq(S) ==
    IF S = {} THEN <<>>
    ELSE LET m == CHOOSE x \in S : \A y \in S : x <= y
         IN  <<m>> \o SortedSeq(S \ {m})

\* What one enumeration by psutil.process_iter(['pid','name']) can yield
\* from process table `table`: any subset of the processes, in pid order,
\* each with the status of its cached name.
Listings(table, statuses) ==
    UNION { { [i \in DOMAIN SortedSeq(S) |->
                 [pid |-> SortedSeq(S)[i], info |-> st[SortedSeq(S)[i]]]]
              : st \in [S -> statuses] }
            : S \in SUBSET (DOMAIN table) }

\* What the two reads of one handle (cpu_percent, then memory_info and
\* virtual_memory) do during one aggregation.
Outcomes(handles, statuses) ==
    [Range(handles) -> [cpu : statuses, mem : statuses]]

-----------------------------------------------------------------------------
(* _find_processes_by_name *)

RECURSIVE FindLoop(_, _, _, _, _)
\* the for loop, from the i-th enumerated process on
FindLoop(app_name_lower, listing, table, i, matching_processes) ==
    IF i > Len(listing)
    THEN [raised |-> "", procs |-> matching_processes]
    ELSE LET proc == listing[i] IN
         IF proc.info \in PerProcessErrors
         THEN FindLoop(app_name_lower, listing, table, i + 1, matching_processes)
         ELSE IF proc.info = "none"
         THEN \* None.lower(): AttributeError, which the except clause does not name
              [raised |-> "AttributeError", procs |-> <<>>]
         ELSE LET proc_name == Lower(table[proc.pid].name) IN
              IF StrIn(app_name_lower, proc_name)
              THEN FindLoop(app_name_lower, listing, table, i + 1,
                            Append(matching_processes, proc.pid))
              ELSE FindLoop(app_name_lower, listing, table, i + 1,
                            matching_processes)

RECURSIVE CaseSensitiveLoop(_, _, _, _, _)
CaseSensitiveLoop(app_name_lower, listing, table, i, matching_processes) ==
    IF i > Len(listing)
    THEN [raised |-> "", procs |-> matching_processes]
    ELSE LET proc == listing[i] IN
         IF proc.info \in PerProcessErrors
         THEN CaseSensitiveLoop(app_name_lower, listing, table, i + 1,
                                matching_processes)
         ELSE IF proc.info = "none"
         THEN [raised |-> "AttributeError", procs |-> <<>>]
         ELSE IF StrIn(app_name_lower, table[proc.pid].name)
              THEN CaseSensitiveLoop(app_name_lower, listing, table, i + 1,
                                     Append(matching_processes, proc.pid))
              ELSE CaseSensitiveLoop(app_name_lower, listing, table, i + 1,
                                     matching_processes)

\* The resolver without line 65's .lower() on the process name.
FindProcessesCaseSensitive(app_name, listing, table) ==
    CaseSensitiveLoop(Lower(app_name), listing, table, 1, <<>>)

FindProcessesByName(app_name, listing, table) ==
    FindLoop(Lower(app_name), listing, table, 1, <<>>)

-----------------------------------------------------------------------------
(* _aggregate_process_metrics *)

\* (memory_info.rss / psutil.virtual_memory().total) * 100
MemoryPercent(rss, total) == (rss * 100) \div total

RECURSIVE AggregateLoop(_, _, _, _, _, _, _)
\* the for loop, from the i-th handle on
AggregateLoop(processes, outcome, table, memTotal, i, total_cpu, total_memory) ==
    IF i > Len(processes)
    THEN [raised |-> "", cpu |-> total_cpu, mem |-> total_memory]
    ELSE LET proc == processes[i]
             o    == outcome[proc]
         IN
         IF o.cpu = "fatal"
         THEN [raised |-> "ProviderError", cpu |-> 0, mem |-> 0]
         ELSE IF o.cpu \in PerProcessErrors
         THEN AggregateLoop(processes, outcome, table, memTotal, i + 1,
                            total_cpu, total_memory)
         ELSE IF o.mem = "fatal"
         THEN [raised |-> "ProviderError", cpu |-> 0, mem |-> 0]
         ELSE IF o.mem \in PerProcessErrors
         THEN AggregateLoop(processes, outcome, table, memTotal, i + 1,
                            total_cpu, total_memory)
         ELSE AggregateLoop(processes, outcome, table, memTotal, i + 1,
                            total_cpu + table[proc].cpu,
                            total_memory + MemoryPercent(table[proc].rss, memTotal))

RECURSIVE UnguardedLoop(_, _, _, _, _, _, _)
UnguardedLoop(processes, outcome, table, memTotal, i, total_cpu, total_memory) ==
    IF i > Len(processes)
    THEN [raised |-> "", cpu |-> total_cpu, mem |-> total_memory]
    ELSE LET proc == processes[i]
             o    == outcome[proc]
         IN
         IF o.cpu /= "ok"
         THEN [raised |-> o.cpu, cpu |-> 0, mem |-> 0]
         ELSE IF o.mem /= "ok"
         THEN [raised |-> o.mem, cpu |-> 0, mem |-> 0]
         ELSE UnguardedLoop(processes, outcome, table, memTotal, i + 1,
                            total_cpu + table[proc].cpu,
                            total_memory + MemoryPercent(table[proc].rss, memTotal))

\* The aggregation without its try/except: the first failing read raises.
AggregateUnguarded(processes, outcome, table, memTotal) ==
    IF processes = <<>>
    THEN [raised |-> "", cpu |-> 0, mem |-> 0]
    ELSE UnguardedLoop(processes, outcome, table, memTotal, 1, 0, 0)

RECURSIVE CpuFirstLoop(_, _, _, _, _, _, _)
CpuFirstLoop(processes, outcome, table, memTotal, i, total_cpu, total_memory) ==
    IF i > Len(processes)
    THEN [raised |-> "", cpu |-> total_cpu, mem |-> total_memory]
    ELSE LET proc == processes[i]
             o    == outcome[proc]
         IN
         IF o.cpu = "fatal"
         THEN [raised |-> "ProviderError", cpu |-> 0, mem |-> 0]
         ELSE IF o.cpu \in PerProcessErrors
         THEN CpuFirstLoop(processes, outcome, table, memTotal, i + 1,
                           total_cpu, total_memory)
         ELSE IF o.mem = "fatal"
         THEN [raised |-> "ProviderError", cpu |-> 0, mem |-> 0]
         ELSE IF o.mem \in PerProcessErrors
         THEN CpuFirstLoop(processes, outcome, table, memTotal, i + 1,
                           total_cpu + table[proc].cpu, total_memory)
         ELSE CpuFirstLoop(processes, outcome, table, memTotal, i + 1,
                           total_cpu + table[proc].cpu,
                           total_memory + MemoryPercent(table[proc].rss, memTotal))

\* The aggregation with `total_cpu += cpu_percent` placed right after the CPU
\* read, before the memory read: a handle whose memory read fails has already
\* been added to the CPU sum.
AggregateCpuFirst(processes, outcome, table, memTotal) ==
    IF processes = <<>>
    THEN [raised |-> "", cpu |-> 0, mem |-> 0]
    ELSE CpuFirstLoop(processes, outcome, table, memTotal, 1, 0, 0)

AggregateProcessMetrics(processes, outcome, table, memTotal) ==
    IF processes = <<>>
    THEN [raised |-> "", cpu |-> 0, mem |-> 0]
    ELSE AggregateLoop(processes, outcome, table, memTotal, 1, 0, 0)

-----------------------------------------------------------------------------
(* The flush block of run() *)

NoFile == [exists |-> FALSE, header |-> <<>>, rows |-> <<>>]
NoReport == [kind |-> "", count |-> 0]

\* one row of the frame: the dict's values in key order
ToRow(s) == [i \in DOMAIN Column |-> s[Column[i]]]

\* pd.DataFrame(list of dicts): columns are the dicts' keys in insertion order
DataFrame(snaps) ==
    [columns |-> Column, rows |-> [i \in DOMAIN snaps |-> ToRow(snaps[i])]]

\* df.to_csv(path, index=False): a header row, then one row per frame row
ToCsv(df) == [exists |-> TRUE, header |-> df.columns, rows |-> df.rows]

\* The flush block without its `if self.snapshots` test.
FlushBlockAlways(snaps, dest) ==
    [file   |-> ToCsv(DataFrame(snaps)),
     report |-> [kind |-> "saved", count |-> Len(snaps)],
     wrote  |-> 1]

\* lines 166-174: what the block leaves in the destination, prints and writes
FlushBlock(snaps, dest) ==
    IF snaps /= <<>>
    THEN [file   |-> ToCsv(DataFrame(snaps)),
          report |-> [kind |-> "saved", count |-> Len(snaps)],
          wrote  |-> 1]
    ELSE [file   |-> dest,
          report |-> [kind |-> "nodata", count |-> 0],
          wrote  |-> 0]

-----------------------------------------------------------------------------
(* The worlds the run executes against *)

\* The instants datetime.now() can return; the wall clock may step back.
Clocks == {0, 1}

\* Two processes, one per monitored application.
MainProcs ==
    <<[name |-> S_Code,    cpu |-> 12, rss |-> 30],
      [name |-> S_Spotify, cpu |-> 7,  rss |-> 20]>>

MainWorld ==
    [maxTicks   |-> MaxTicks,
     clocks     |-> Clocks,
     sysCpu     |-> {35},
     sysMem     |-> {60},
     net        |-> {[bytes_sent |-> 1000, bytes_recv |-> 2000]},
     procs      |-> MainProcs,
     memTotal   |-> 200,
     infoStatus |-> {"ok", "none", "NoSuchProcess"},
     readStatus |-> {"ok", "fatal", "AccessDenied"},
     fatal      |-> TRUE]

\* The values argparse can hand to SystemMonitor as --interval (type=float).
Intervals == {-1, 0, 2}

-----------------------------------------------------------------------------
(* State after SystemMonitor.__init__ *)

FreshLoc ==
    [timestamp |-> 0, total_system_cpu |-> 0, total_system_memory |-> 0,
     network_bytes_sent |-> 0, network_bytes_recv |-> 0,
     foreground_procs |-> <<>>, app_A_cpu |-> 0, app_A_memory |-> 0,
     background_procs |-> <<>>, app_B_cpu |-> 0, app_B_memory |-> 0]

Unread == [c \in Range(Column) |-> 0]

NoSnapshot == [c \in Range(Column) |-> 0]

NoArg == [fn |-> "", app_name |-> <<>>, listing |-> <<>>, processes |-> <<>>,
          outcome |-> <<>>, session |-> <<>>]
NoRet == [done |-> FALSE, raised |-> "", procs |-> <<>>, cpu |-> 0, mem |-> 0,
          flushes |-> 0]

\* Everything but the configuration and the world: lines 38-39, and run() not entered.
InitCommon ==
    /\ snapshots = <<>>
    /\ running = TRUE
    /\ exc = ""
    /\ loc = FreshLoc
    /\ readAt = Unread
    /\ snapshot = NoSnapshot
    /\ file = NoFile
    /\ report = NoReport
    /\ progress = <<>>
    /\ tick = 0
    /\ sigPhase = "none"
    /\ sigTick = 0
    /\ built = <<>>
    /\ writes = 0

Init ==
    /\ world = MainWorld
    /\ foreground_app = Lower(S_Code)
    /\ background_app = Lower(S_Spotify)
    /\ interval \in Intervals
    /\ pc = "start"
    /\ arg = NoArg
    /\ ret = NoRet
    /\ InitCommon

-----------------------------------------------------------------------------
(* The signal handler *)

BuildPcs == {"timestamp", "sys_cpu", "sys_mem", "net", "resolve_A",
             "aggregate_A", "resolve_B", "aggregate_B", "append"}

\* the part of run() the main thread is in
PhaseOf(p, t) ==
    CASE p \in {"start", "init", "reg_sigint", "reg_sigterm", "prime"}
            -> "before_loop"
      [] p = "loop_top" -> IF t = 0 THEN "before_loop" ELSE "loop_top"
      [] p \in BuildPcs -> "in_tick"
      [] p \in {"progress", "sleep"} -> "after_append"
      [] p = "sleeping" -> "sleeping"
      [] OTHER -> "stopping"

\* The handler as it would be without line 41: the signal raises
\* KeyboardInterrupt at the position of the main thread.
SignalHandlerInterrupts ==
    /\ pc \notin {"done", "crashed"}
    /\ running' = FALSE
    /\ sigPhase' = IF sigPhase = "none" THEN PhaseOf(pc, tick) ELSE sigPhase
    /\ sigTick' = IF sigPhase = "none" THEN tick ELSE sigTick
    /\ IF pc \in {"start", "flush"}
       THEN pc' = "crashed" /\ exc' = "KeyboardInterrupt"
       ELSE pc' = "flush" /\ exc' = exc
    /\ loc' = FreshLoc
    /\ readAt' = Unread
    /\ UNCHANGED <<world, foreground_app, background_app, interval, snapshots,
                   snapshot, file, report, progress,
                   tick, built, writes, arg, ret>>

\* The handler flipping the flag instead of clearing it: a second signal would
\* set it back to true.
SignalHandlerToggle ==
    /\ pc \notin {"done", "crashed"}
    /\ running' = ~running
    /\ sigPhase' = IF sigPhase = "none" THEN PhaseOf(pc, tick) ELSE sigPhase
    /\ sigTick' = IF sigPhase = "none" THEN tick ELSE sigTick
    /\ UNCHANGED <<world, foreground_app, background_app, interval, snapshots,
                   pc, exc, loc, readAt, snapshot, file, report, progress,
                   tick, built, writes, arg, ret>>

\* SIGINT or SIGTERM delivered while the process lives: _signal_handler runs
\* between two bytecodes of the main thread and returns to it (a sleep that
\* was interrupted resumes for the rest of its time).
SignalHandler ==
    /\ pc \notin {"done", "crashed"}
    /\ running' = FALSE
    /\ sigPhase' = IF sigPhase = "none" THEN PhaseOf(pc, tick) ELSE sigPhase
    /\ sigTick' = IF sigPhase = "none" THEN tick ELSE sigTick
    /\ UNCHANGED <<world, foreground_app, background_app, interval, snapshots,
                   pc, exc, loc, readAt, snapshot, file, report, progress,
                   tick, built, writes, arg, ret>>

-----------------------------------------------------------------------------
(* run(): the sampling loop *)

\* an exception leaves run(): nothing in run() catches it (the only handler
\* is `except KeyboardInterrupt`), the frames and their locals are gone
Uncaught(e) ==
    /\ pc' = "crashed"
    /\ exc' = e
    /\ loc' = FreshLoc
    /\ readAt' = Unread

\* local `name` of _collect_snapshot is assigned `value`, feeding `columns`
Assign(name, value, columns) ==
    /\ loc' = [loc EXCEPT ![name] = value]
    /\ readAt' = [c \in Range(Column) |-> IF c \in columns THEN tick ELSE readAt[c]]

\* lines 145-150: the banner
Start ==
    /\ pc = "start"
    /\ pc' = "loop_top"
    /\ UNCHANGED <<world, foreground_app, background_app, interval, snapshots,
                   running, exc, loc, readAt, snapshot, file, report, progress,
                   tick, sigPhase, sigTick, built, writes, arg, ret>>

\* The loop as a do-while: the first tick begins whatever the stop flag says.
LoopEnterFirst ==
    /\ pc = "loop_top"
    /\ running \/ tick = 0
    /\ tick < world.maxTicks
    /\ tick' = tick + 1
    /\ pc' = "timestamp"
    /\ loc' = FreshLoc
    /\ readAt' = Unread
    /\ UNCHANGED <<world, foreground_app, background_app, interval, snapshots,
                   running, exc, snapshot, file, report, progress,
                   sigPhase, sigTick, built, writes, arg, ret>>

\* line 153, self.running true: a tick begins, _collect_snapshot is called
LoopEnter ==
    /\ pc = "loop_top"
    /\ running
    /\ tick < world.maxTicks
    /\ tick' = tick + 1
    /\ pc' = "timestamp"
    /\ loc' = FreshLoc
    /\ readAt' = Unread
    /\ UNCHANGED <<world, foreground_app, background_app, interval, snapshots,
                   running, exc, snapshot, file, report, progress,
                   sigPhase, sigTick, built, writes, arg, ret>>

\* line 153, self.running false: the loop is left for the flush block
LoopExit ==
    /\ pc = "loop_top"
    /\ ~running
    /\ pc' = "flush"
    /\ UNCHANGED <<world, foreground_app, background_app, interval, snapshots,
                   running, exc, loc, readAt, snapshot, file, report, progress,
                   tick, sigPhase, sigTick, built, writes, arg, ret>>

\* line 109: timestamp = datetime.now()
ReadTimestamp ==
    /\ pc = "timestamp"
    /\ \E t \in world.clocks : Assign("timestamp", t, {"timestamp"})
    /\ pc' = "sys_cpu"
    /\ UNCHANGED <<world, foreground_app, background_app, interval, snapshots,
                   running, exc, snapshot, file, report, progress,
                   tick, sigPhase, sigTick, built, writes, arg, ret>>

\* line 111: psutil.cpu_percent(interval=None)
ReadSystemCpu ==
    /\ pc = "sys_cpu"
    /\ \E v \in world.sysCpu :
          Assign("total_system_cpu", v, {"total_system_cpu_percent"})
    /\ pc' = "sys_mem"
    /\ UNCHANGED <<world, foreground_app, background_app, interval, snapshots,
                   running, exc, snapshot, file, report, progress,
                   tick, sigPhase, sigTick, built, writes, arg, ret>>

\* line 112: psutil.virtual_memory().percent
ReadSystemMemory ==
    /\ pc = "sys_mem"
    /\ \E v \in world.sysMem :
          Assign("total_system_memory", v, {"total_system_memory_percent"})
    /\ pc' = "net"
    /\ UNCHANGED <<world, foreground_app, background_app, interval, snapshots,
                   running, exc, snapshot, file, report, progress,
                   tick, sigPhase, sigTick, built, writes, arg, ret>>

\* lines 114-116: psutil.net_io_counters() and its two fields
ReadNetwork ==
    /\ pc = "net"
    /\ \E net_io \in world.net :
          /\ loc' = [loc EXCEPT !.network_bytes_sent = net_io.bytes_sent,
                                !.network_bytes_recv = net_io.bytes_recv]
          /\ readAt' = [c \in Range(Column) |->
                          IF c \in {"network_bytes_sent", "network_bytes_recv"}
                          THEN tick ELSE readAt[c]]
    /\ pc' = "resolve_A"
    /\ UNCHANGED <<world, foreground_app, background_app, interval, snapshots,
                   running, exc, snapshot, file, report, progress,
                   tick, sigPhase, sigTick, built, writes, arg, ret>>

\* The build with each system-wide read wrapped in `except Exception: pass`:
\* the failing read is swallowed, its local keeps a zero (or no handles), and
\* the build goes on.
RaiseFatalZeroed ==
    /\ pc \in {"sys_cpu", "sys_mem", "net", "resolve_A", "resolve_B"}
    /\ world.fatal
    /\ pc' = CASE pc = "sys_cpu" -> "sys_mem"
               [] pc = "sys_mem" -> "net"
               [] pc = "net" -> "resolve_A"
               [] pc = "resolve_A" -> "aggregate_A"
               [] pc = "resolve_B" -> "aggregate_B"
    /\ UNCHANGED <<world, foreground_app, background_app, interval, snapshots,
                   running, exc, loc, readAt, snapshot, file, report, progress,
                   tick, sigPhase, sigTick, built, writes, arg, ret>>

\* lines 111-122: a system-wide provider call (cpu_percent, virtual_memory,
\* net_io_counters, process_iter) fails; the error leaves _collect_snapshot
RaiseFatal ==
    /\ pc \in {"sys_cpu", "sys_mem", "net", "resolve_A", "resolve_B"}
    /\ world.fatal
    /\ Uncaught("ProviderError")
    /\ UNCHANGED <<world, foreground_app, background_app, interval, snapshots,
                   running, snapshot, file, report, progress,
                   tick, sigPhase, sigTick, built, writes, arg, ret>>

\* a resolve step of _collect_snapshot (lines 118 and 121)
Resolve(at, app_name, into, next) ==
    /\ pc = at
    /\ \E listing \in Listings(world.procs, world.infoStatus) :
          LET r == FindProcessesByName(app_name, listing, world.procs) IN
          IF r.raised /= ""
          THEN Uncaught(r.raised)
          ELSE /\ loc' = [loc EXCEPT ![into] = r.procs]
               /\ pc' = next
               /\ UNCHANGED <<exc, readAt>>
    /\ UNCHANGED <<world, foreground_app, background_app, interval, snapshots,
                   running, snapshot, file, report, progress,
                   tick, sigPhase, sigTick, built, writes, arg, ret>>

\* an aggregate step of _collect_snapshot (lines 119 and 122)
Aggregate(at, from, cpuInto, memInto, columns, next) ==
    /\ pc = at
    /\ \E outcome \in Outcomes(loc[from], world.readStatus) :
          LET r == AggregateProcessMetrics(loc[from], outcome, world.procs,
                                           world.memTotal) IN
          IF r.raised /= ""
          THEN Uncaught(r.raised)
          ELSE /\ loc' = [loc EXCEPT ![cpuInto] = r.cpu, ![memInto] = r.mem]
               /\ readAt' = [c \in Range(Column) |->
                               IF c \in columns THEN tick ELSE readAt[c]]
               /\ pc' = next
               /\ UNCHANGED exc
    /\ UNCHANGED <<world, foreground_app, background_app, interval, snapshots,
                   running, snapshot, file, report, progress,
                   tick, sigPhase, sigTick, built, writes, arg, ret>>

\* line 118
ResolveForeground ==
    Resolve("resolve_A", foreground_app, "foreground_procs", "aggregate_A")

\* line 119
AggregateForeground ==
    Aggregate("aggregate_A", "foreground_procs", "app_A_cpu", "app_A_memory",
              {"app_A_cpu_percent", "app_A_memory_percent"}, "resolve_B")

\* line 121
ResolveBackground ==
    Resolve("resolve_B", background_app, "background_procs", "aggregate_B")

\* Line 122 handed the handles of application A (a list kept from an earlier
\* resolve) instead of the ones line 121 has just resolved.
AggregateBackgroundStale ==
    Aggregate("aggregate_B", "foreground_procs", "app_B_cpu", "app_B_memory",
              {"app_B_cpu_percent", "app_B_memory_percent"}, "append")

\* line 122
AggregateBackground ==
    Aggregate("aggregate_B", "background_procs", "app_B_cpu", "app_B_memory",
              {"app_B_cpu_percent", "app_B_memory_percent"}, "append")

\* lines 124-134: the dict literal
MkSnapshot(l) ==
    [timestamp                   |-> l.timestamp,
     total_system_cpu_percent    |-> l.total_system_cpu,
     total_system_memory_percent |-> l.total_system_memory,
     network_bytes_sent          |-> l.network_bytes_sent,
     network_bytes_recv          |-> l.network_bytes_recv,
     app_A_cpu_percent           |-> l.app_A_cpu,
     app_A_memory_percent        |-> l.app_A_memory,
     app_B_cpu_percent           |-> l.app_B_cpu,
     app_B_memory_percent        |-> l.app_B_memory]

\* The append as self.snapshots.insert(0, snapshot).
AppendSnapshotFront ==
    /\ pc = "append"
    /\ snapshot' = MkSnapshot(loc)
    /\ snapshots' = <<snapshot'>> \o snapshots
    /\ built' = Append(built, [snapshot |-> snapshot', readAt |-> readAt,
                               tick |-> tick])
    /\ loc' = FreshLoc
    /\ readAt' = Unread
    /\ pc' = "progress"
    /\ UNCHANGED <<world, foreground_app, background_app, interval, running,
                   exc, file, report, progress, tick, sigPhase, sigTick,
                   writes, arg, ret>>

\* lines 124-136 and 154-155: the snapshot is assembled, returned and appended
AppendSnapshot ==
    /\ pc = "append"
    /\ snapshot' = MkSnapshot(loc)
    /\ snapshots' = Append(snapshots, snapshot')
    /\ built' = Append(built, [snapshot |-> snapshot', readAt |-> readAt,
                               tick |-> tick])
    /\ loc' = FreshLoc
    /\ readAt' = Unread
    /\ pc' = "progress"
    /\ UNCHANGED <<world, foreground_app, background_app, interval, running,
                   exc, file, report, progress, tick, sigPhase, sigTick,
                   writes, arg, ret>>

\* The progress test made on the length before the append.
ProgressBeforeAppend ==
    /\ pc = "progress"
    /\ progress' = IF (Len(snapshots) - 1) % 10 = 0
                   THEN Append(progress, <<Len(snapshots),
                                           snapshot.total_system_cpu_percent>>)
                   ELSE progress
    /\ pc' = "sleep"
    /\ UNCHANGED <<world, foreground_app, background_app, interval, snapshots,
                   running, exc, loc, readAt, snapshot, file, report,
                   tick, sigPhase, sigTick, built, writes, arg, ret>>

ProgressEvery == 10

\* lines 157-159
Progress ==
    /\ pc = "progress"
    /\ progress' = IF Len(snapshots) % ProgressEvery = 0
                   THEN Append(progress, <<Len(snapshots),
                                           snapshot.total_system_cpu_percent>>)
                   ELSE progress
    /\ pc' = "sleep"
    /\ UNCHANGED <<world, foreground_app, background_app, interval, snapshots,
                   running, exc, loc, readAt, snapshot, file, report,
                   tick, sigPhase, sigTick, built, writes, arg, ret>>

\* line 161: time.sleep(self.interval) is called; a negative length raises
\* ValueError at once
Sleep ==
    /\ pc = "sleep"
    /\ IF interval < 0
       THEN Uncaught("ValueError")
       ELSE /\ pc' = "sleeping"
            /\ UNCHANGED <<exc, loc, readAt>>
    /\ UNCHANGED <<world, foreground_app, background_app, interval, snapshots,
                   running, snapshot, file, report, progress,
                   tick, sigPhase, sigTick, built, writes, arg, ret>>

\* line 161: the sleep returns
Wake ==
    /\ pc = "sleeping"
    /\ pc' = "loop_top"
    /\ UNCHANGED <<world, foreground_app, background_app, interval, snapshots,
                   running, exc, loc, readAt, snapshot, file, report, progress,
                   tick, sigPhase, sigTick, built, writes, arg, ret>>

\* lines 166-174, then run() and main() return
Flush ==
    /\ pc = "flush"
    /\ LET r == FlushBlock(snapshots, file) IN
          /\ file' = r.file
          /\ report' = r.report
          /\ writes' = writes + r.wrote
    /\ pc' = "done"
    /\ UNCHANGED <<world, foreground_app, background_app, interval, snapshots,
                   running, exc, loc, readAt, snapshot, progress,
                   tick, sigPhase, sigTick, built, arg, ret>>

Next ==
    \/ SignalHandler
    \/ Start
    \/ LoopEnter
    \/ LoopExit
    \/ ReadTimestamp
    \/ ReadSystemCpu
    \/ ReadSystemMemory
    \/ ReadNetwork
    \/ RaiseFatal
    \/ ResolveForeground
    \/ AggregateForeground
    \/ ResolveBackground
    \/ AggregateBackground
    \/ AppendSnapshot
    \/ Progress
    \/ Sleep
    \/ Wake
    \/ Flush

Spec == Init /\ [][Next]_vars

-----------------------------------------------------------------------------
(* _aggregate_process_metrics on its own: every list of handles of a three-
   process table, every outcome of the reads *)

AggregateProcs ==
    <<[name |-> S_Code,       cpu |-> 1, rss |-> 10],
      [name |-> S_CodeHelper, cpu |-> 2, rss |-> 20],
      [name |-> S_Spotify,    cpu |-> 4, rss |-> 40]>>

AggregateWorld ==
    [MainWorld EXCEPT !.procs = AggregateProcs, !.readStatus = ReadStatus]

InitAggregate ==
    /\ world = AggregateWorld
    /\ foreground_app = Lower(S_Code)
    /\ background_app = Lower(S_Spotify)
    /\ interval = 2
    /\ pc = "call"
    /\ \E S \in SUBSET (DOMAIN AggregateProcs) :
         \E outcome \in Outcomes(SortedSeq(S), world.readStatus) :
            arg = [NoArg EXCEPT !.fn = "aggregate",
                                !.processes = SortedSeq(S),
                                !.outcome = outcome]
    /\ ret = NoRet
    /\ InitCommon

\* self._aggregate_process_metrics(processes) is called and returns or raises
CallAggregate ==
    /\ pc = "call"
    /\ arg.fn = "aggregate"
    /\ LET r == AggregateProcessMetrics(arg.processes, arg.outcome, world.procs,
                                        world.memTotal) IN
          ret' = [NoRet EXCEPT !.done = TRUE, !.raised = r.raised,
                               !.cpu = r.cpu, !.mem = r.mem]
    /\ pc' = "returned"
    /\ UNCHANGED <<world, foreground_app, background_app, interval, snapshots,
                   running, exc, loc, readAt, snapshot, file, report, progress,
                   tick, sigPhase, sigTick, built, writes, arg>>

SpecAggregate == InitAggregate /\ [][CallAggregate]_vars

-----------------------------------------------------------------------------
(* _find_processes_by_name on its own: every enumeration of a five-process
   table, selectors in several cases *)

ResolveProcs ==
    <<[name |-> S_CodeHelper, cpu |-> 1, rss |-> 10],
      [name |-> S_VSCODE,     cpu |-> 2, rss |-> 20],
      [name |-> S_code,       cpu |-> 3, rss |-> 30],
      [name |-> S_decode,     cpu |-> 4, rss |-> 40],
      [name |-> S_Spotify,    cpu |-> 5, rss |-> 50]>>

ResolveWorld ==
    [MainWorld EXCEPT !.procs = ResolveProcs, !.infoStatus = InfoStatus]

Selectors == {S_code, S_Code, S_CODE, S_Cod}

InitResolve ==
    /\ world = ResolveWorld
    /\ foreground_app = Lower(S_Code)
    /\ background_app = Lower(S_Spotify)
    /\ interval = 2
    /\ pc = "call"
    /\ \E app_name \in Selectors :
         \E listing \in Listings(world.procs, world.infoStatus) :
            arg = [NoArg EXCEPT !.fn = "resolve",
                                !.app_name = app_name,
                                !.listing = listing]
    /\ ret = NoRet
    /\ InitCommon

\* self._find_processes_by_name(app_name) is called and returns or raises
CallResolve ==
    /\ pc = "call"
    /\ arg.fn = "resolve"
    /\ LET r == FindProcessesByName(arg.app_name, arg.listing, world.procs) IN
          ret' = [NoRet EXCEPT !.done = TRUE, !.raised = r.raised,
                               !.procs = r.procs]
    /\ pc' = "returned"
    /\ UNCHANGED <<world, foreground_app, background_app, interval, snapshots,
                   running, exc, loc, readAt, snapshot, file, report, progress,
                   tick, sigPhase, sigTick, built, writes, arg>>

SpecResolve == InitResolve /\ [][CallResolve]_vars

-----------------------------------------------------------------------------
(* The flush block on its own: run() called, and called again, on a monitor
   whose stop flag is already set, for every short session *)

MaxRuns == 3

\* the snapshots a session under test is made of
SessionSnapshots ==
    { [NoSnapshot EXCEPT !.timestamp = t, !.total_system_cpu_percent = c]
        : t \in 0..1, c \in {0, 35} }

Sessions ==
    {<<>>} \cup { <<a>> : a \in SessionSnapshots }
           \cup { <<a, b>> : a \in SessionSnapshots, b \in SessionSnapshots }

InitFlush ==
    /\ world = MainWorld
    /\ foreground_app = Lower(S_Code)
    /\ background_app = Lower(S_Spotify)
    /\ interval = 2
    /\ pc = "start"
    /\ snapshots \in Sessions
    /\ running = FALSE
    /\ exc = ""
    /\ loc = FreshLoc
    /\ readAt = Unread
    /\ snapshot = NoSnapshot
    /\ file = NoFile
    /\ report = NoReport
    /\ progress = <<>>
    /\ tick = 0
    /\ sigPhase = "before_loop"
    /\ sigTick = 0
    /\ built = <<>>
    /\ writes = 0
    /\ arg = [NoArg EXCEPT !.fn = "flush", !.session = snapshots]
    /\ ret = NoRet

\* run() has returned and is called once more on the same monitor
RunAgain ==
    /\ pc = "done"
    /\ ret.flushes + 1 < MaxRuns
    /\ ret' = [ret EXCEPT !.flushes = @ + 1]
    /\ pc' = "start"
    /\ UNCHANGED <<world, foreground_app, background_app, interval, snapshots,
                   running, exc, loc, readAt, snapshot, file, report, progress,
                   tick, sigPhase, sigTick, built, writes, arg>>

NextFlush ==
    \/ Start
    \/ LoopExit
    \/ Flush
    \/ RunAgain

SpecFlush == InitFlush /\ [][NextFlush]_vars

-----------------------------------------------------------------------------
(* A long run: more than twenty ticks on a quiet machine, on which neither
   monitored application runs, no read fails, and the system load steps
   between two levels a bounded number of times *)

MaxLongTicks == 21
MaxLoadChanges == 1

LongWorld ==
    [maxTicks    |-> MaxLongTicks,
     clocks      |-> {0},
     sysCpu      |-> {35},
     sysMem      |-> {60},
     net         |-> {[bytes_sent |-> 1000, bytes_recv |-> 2000]},
     procs       |-> <<>>,
     memTotal    |-> 200,
     infoStatus  |-> {"ok"},
     readStatus  |-> {"ok"},
     fatal       |-> FALSE,
     loadChanges |-> 0]

InitLong ==
    /\ world = LongWorld
    /\ foreground_app = Lower(S_Code)
    /\ background_app = Lower(S_Spotify)
    /\ interval = 2
    /\ pc = "start"
    /\ arg = NoArg
    /\ ret = NoRet
    /\ InitCommon

\* during a sleep the load psutil.cpu_percent reports moves to the other level
LoadChange ==
    /\ pc = "sleeping"
    /\ world.loadChanges < MaxLoadChanges
    /\ world' = [world EXCEPT
                   !.sysCpu = IF @ = {35} THEN {80} ELSE {35},
                   !.loadChanges = @ + 1]
    /\ UNCHANGED <<foreground_app, background_app, interval, snapshots,
                   running, pc, exc, loc, readAt, snapshot, file, report,
                   progress, tick, sigPhase, sigTick, built, writes, arg, ret>>

NextLong ==
    \/ SignalHandler
    \/ Start
    \/ LoopEnter
    \/ LoopExit
    \/ ReadTimestamp
    \/ ReadSystemCpu
    \/ ReadSystemMemory
    \/ ReadNetwork
    \/ ResolveForeground
    \/ AggregateForeground
    \/ ResolveBackground
    \/ AggregateBackground
    \/ AppendSnapshot
    \/ Progress
    \/ Sleep
    \/ Wake
    \/ Flush
    \/ LoadChange

SpecLong == InitLong /\ [][NextLong]_vars

-----------------------------------------------------------------------------
(* The whole program: SystemMonitor.__init__ statement by statement, then
   run().  The world also holds the signal dispositions of the process and
   the baseline psutil keeps for cpu_percent(interval=None). *)

PrimeIntervalMs == 100

StartupWorld ==
    [handlers |-> {}, primed |-> FALSE, primeBlockedMs |-> 0] @@ MainWorld

InitStartup ==
    /\ world = StartupWorld
    /\ foreground_app = <<>>
    /\ background_app = <<>>
    /\ interval \in Intervals
    /\ pc = "init"
    /\ arg = NoArg
    /\ ret = NoRet
    /\ InitCommon

\* lines 35-39
InitFields ==
    /\ pc = "init"
    /\ foreground_app' = Lower(S_Code)
    /\ background_app' = Lower(S_Spotify)
    /\ snapshots' = <<>>
    /\ running' = TRUE
    /\ pc' = "reg_sigint"
    /\ UNCHANGED <<world, interval, exc, loc, readAt, snapshot, file, report,
                   progress, tick, sigPhase, sigTick, built, writes, arg, ret>>

\* line 41: signal.signal(signal.SIGINT, self._signal_handler)
RegisterSigint ==
    /\ pc = "reg_sigint"
    /\ world' = [world EXCEPT !.handlers = @ \cup {"SIGINT"}]
    /\ pc' = "reg_sigterm"
    /\ UNCHANGED <<foreground_app, background_app, interval, snapshots,
                   running, exc, loc, readAt, snapshot, file, report,
                   progress, tick, sigPhase, sigTick, built, writes, arg, ret>>

\* line 42: signal.signal(signal.SIGTERM, self._signal_handler)
RegisterSigterm ==
    /\ pc = "reg_sigterm"
    /\ world' = [world EXCEPT !.handlers = @ \cup {"SIGTERM"}]
    /\ pc' = "prime"
    /\ UNCHANGED <<foreground_app, background_app, interval, snapshots,
                   running, exc, loc, readAt, snapshot, file, report,
                   progress, tick, sigPhase, sigTick, built, writes, arg, ret>>

\* Line 43 left out: __init__ ends without a cpu_percent call.
PrimeSkipped ==
    /\ pc = "prime"
    /\ pc' = "start"
    /\ UNCHANGED <<world, foreground_app, background_app, interval, snapshots,
                   running, exc, loc, readAt, snapshot, file, report,
                   progress, tick, sigPhase, sigTick, built, writes, arg, ret>>

\* line 43: psutil.cpu_percent(interval=0.1) waits 0.1 s between two readings
\* of the CPU times and leaves the second as the baseline of the next call
PrimeCpu ==
    /\ pc = "prime"
    /\ world' = [world EXCEPT !.primed = TRUE,
                              !.primeBlockedMs = PrimeIntervalMs]
    /\ pc' = "start"
    /\ UNCHANGED <<foreground_app, background_app, interval, snapshots,
                   running, exc, loc, readAt, snapshot, file, report,
                   progress, tick, sigPhase, sigTick, built, writes, arg, ret>>

\* line 43: the call fails; nothing in __init__ or main() catches it
PrimeFails ==
    /\ pc = "prime"
    /\ world.fatal
    /\ Uncaught("ProviderError")
    /\ UNCHANGED <<world, foreground_app, background_app, interval, snapshots,
                   running, snapshot, file, report, progress,
                   tick, sigPhase, sigTick, built, writes, arg, ret>>

\* a signal whose handler is not installed yet: SIGINT raises
\* KeyboardInterrupt inside __init__, SIGTERM ends the process
DefaultSignal ==
    /\ pc \in {"init", "reg_sigint", "reg_sigterm"}
    /\ \E sig \in {"SIGINT", "SIGTERM"} \ world.handlers :
          Uncaught(IF sig = "SIGINT" THEN "KeyboardInterrupt" ELSE "Terminated")
    /\ UNCHANGED <<world, foreground_app, background_app, interval, snapshots,
                   running, snapshot, file, report, progress,
                   tick, sigPhase, sigTick, built, writes, arg, ret>>

\* a signal whose handler is installed, and the steps of run()
Installed ==
    /\ world.handlers /= {}
    /\ Next

NextStartup ==
    \/ InitFields
    \/ RegisterSigint
    \/ RegisterSigterm
    \/ PrimeCpu
    \/ PrimeFails
    \/ DefaultSignal
    \/ Installed

SpecStartup == InitStartup /\ [][NextStartup]_vars

-----------------------------------------------------------------------------
(* Properties *)

\* the process has exited: run() returned, or an exception left it
Exited == pc \in {"done", "crashed"}

\* the rows a list of snapshots persists as
RowsOf(snaps) == [i \in DOMAIN snaps |-> ToRow(snaps[i])]

\* the snapshots built on ticks 1..n, as rows, in the order they were built
BuiltRows(n) == [i \in 1..n |-> ToRow(built[i].snapshot)]

NonDecreasing(seq) ==
    \A i \in DOMAIN seq : \A j \in DOMAIN seq : i <= j => seq[i] <= seq[j]

\* C1: when a fatal provider error (a system-wide read failure) ends a run
\* of positive interval on tick k+1 with k snapshots buffered, the
\* destination holds exactly those k rows when the process has exited.
C1_FatalErrorStillPersists ==
    (interval > 0 /\ pc = "crashed" /\ exc = "ProviderError")
        => /\ Len(snapshots) = tick - 1
           /\ file.rows = RowsOf(snapshots)
           /\ (snapshots /= <<>> => file.exists)

\* C2: with interval <= 0 the system refuses to start: the loop is never
\* entered, no snapshot is collected or appended, no output file is created.
C2_NonPositiveIntervalRefused ==
    interval <= 0
        => /\ pc \notin (BuildPcs \cup {"progress", "sleep", "sleeping"})
           /\ tick = 0
           /\ snapshots = <<>>
           /\ ~file.exists

\* C3: a run stopped by a signal delivered during the sleep that follows
\* tick N's append persists exactly N rows, the snapshots built on ticks
\* 1..N in that order; if the clock readings were non-decreasing, so are the
\* persisted timestamps.
C3_SignalAfterTickN ==
    (pc = "done" /\ sigPhase = "sleeping")
        => /\ sigTick >= 1
           /\ file.exists
           /\ writes = 1
           /\ Len(file.rows) = sigTick
           /\ Len(built) = sigTick
           /\ \A i \in 1..sigTick : built[i].tick = i
           /\ file.rows = BuiltRows(sigTick)
           /\ NonDecreasing([i \in 1..sigTick |-> built[i].snapshot.timestamp])
                 => NonDecreasing([i \in DOMAIN file.rows |-> file.rows[i][1]])

\* C3 witness: two ticks with an advancing clock, the signal in the second sleep.
C3_Witness ==
    /\ pc = "done"
    /\ sigPhase = "sleeping"
    /\ sigTick = 2
    /\ Len(file.rows) = 2
    /\ file.rows[1][1] < file.rows[2][1]

\* every column of the i-th buffered snapshot was read in tick i
CompleteSnapshot(i) ==
    /\ i \in DOMAIN built
    /\ snapshots[i] = built[i].snapshot
    /\ DOMAIN snapshots[i] = Range(Column)
    /\ built[i].tick = i
    /\ \A c \in Range(Column) : built[i].readAt[c] = i

\* C4: a signal only clears the stop flag, leaving the position of the main
\* thread, the locals of the build in progress and the buffer as they were;
\* and every element of the buffer is a complete snapshot whose nine fields
\* were read in one and the same tick.
C4_SignalOnlySetsFlag ==
    /\ [](\A i \in DOMAIN snapshots : CompleteSnapshot(i))
    /\ [][(running /\ ~running')
            => UNCHANGED <<pc, exc, loc, readAt, snapshots, snapshot, file,
                           report, progress, tick, built, writes>>]_vars

\* C4 witness: the signal came in the middle of the build of tick 2, and that
\* tick's snapshot, with a foreground process aggregated, is in the buffer.
C4_Witness ==
    /\ sigPhase = "in_tick"
    /\ sigTick = 2
    /\ ~running
    /\ Len(snapshots) = 2
    /\ CompleteSnapshot(2)
    /\ snapshots[2].app_A_cpu_percent > 0

\* C5: if the stop signal arrives while tick N is in progress and the build
\* of tick N completes, then when the process has exited the snapshot of
\* tick N is in the persisted output.
C5_TickInProgressPersisted ==
    (Exited /\ sigPhase = "in_tick" /\ Len(built) >= sigTick)
        => /\ Len(snapshots) = sigTick
           /\ file.exists
           /\ Len(file.rows) = sigTick
           /\ file.rows[sigTick] = ToRow(built[sigTick].snapshot)

\* C6: in a run of positive interval the session is persisted exactly once
\* and only at shutdown: there is no write before the loop is left, never
\* more than one write, and on every termination path (signal stop or fatal
\* error) with a non-empty buffer exactly one write holding the whole buffer
\* has happened when the process has exited.
C6_PersistedOnceAtShutdown ==
  interval > 0 =>
    /\ writes <= 1
    /\ (pc \notin {"done", "crashed"} => writes = 0 /\ ~file.exists)
    /\ (Exited /\ snapshots /= <<>>)
          => /\ writes = 1
             /\ file.exists
             /\ file.rows = RowsOf(snapshots)

\* C7: flushing an empty session writes nothing and raises nothing, the
\* first time and every time after it.
C7_EmptyFlushIdempotent ==
    snapshots = <<>>
        => /\ writes = 0
           /\ file = NoFile
           /\ exc = ""
           /\ pc /= "crashed"
           /\ (pc = "done" \/ ret.flushes >= 1) => report.kind = "nodata"

\* C7 witness: the empty session has been flushed twice.
C7_Witness ==
    /\ snapshots = <<>>
    /\ ret.flushes = 1
    /\ pc = "done"
    /\ report.kind = "nodata"


RECURSIVE SetSum(_, _)
\* the sum of f over the finite set S
SetSum(S, f) ==
    IF S = {} THEN 0
    ELSE LET x == CHOOSE y \in S : TRUE IN f[x] + SetSum(S \ {x}, f)

\* the handles of the call under test whose two reads both return
Survivors ==
    {p \in Range(arg.processes) :
        arg.outcome[p].cpu = "ok" /\ arg.outcome[p].mem = "ok"}

\* no read that is made fails fatally: every failure is a per-process error
OnlyPerProcessFailures ==
    \A p \in Range(arg.processes) :
        /\ arg.outcome[p].cpu /= "fatal"
        /\ arg.outcome[p].cpu = "ok" => arg.outcome[p].mem /= "fatal"

\* the figures of the three processes of AggregateProcs: cpu percent, and
\* rss as a percentage of the 200 units of physical memory
ExpectedCpu == <<1, 2, 4>>
ExpectedMemory == <<5, 10, 20>>

\* C8: whatever subset of the handles fails mid-read with a per-process
\* error, aggregate does not raise and returns the CPU and memory sums over
\* exactly the handles that did not fail; both are >= 0, and both are 0 when
\* there is no handle or every handle fails.
C8_AggregateSumsSurvivors ==
    (ret.done /\ arg.fn = "aggregate" /\ OnlyPerProcessFailures)
        => /\ ret.raised = ""
           /\ ret.cpu = SetSum(Survivors, ExpectedCpu)
           /\ ret.mem = SetSum(Survivors, ExpectedMemory)
           /\ ret.cpu >= 0
           /\ ret.mem >= 0
           /\ Survivors = {} => (ret.cpu = 0 /\ ret.mem = 0)

\* C8 witness: three handles; the first is read, the second fails on its
\* memory read, the third on its CPU read.
C8_Witness ==
    /\ ret.done
    /\ arg.processes = <<1, 2, 3>>
    /\ arg.outcome[1] = [cpu |-> "ok", mem |-> "ok"]
    /\ arg.outcome[2] = [cpu |-> "ok", mem |-> "NoSuchProcess"]
    /\ arg.outcome[3].cpu = "ZombieProcess"
    /\ ret.raised = ""
    /\ ret.cpu = 1
    /\ ret.mem = 5

\* the names of ResolveProcs and the selectors, case-folded by hand
FoldedName ==
    <<<<"c","o","d","e"," ","h","e","l","p","e","r">>,
      <<"v","s","c","o","d","e">>,
      <<"c","o","d","e">>,
      <<"d","e","c","o","d","e">>,
      <<"s","p","o","t","i","f","y">>>>

FoldedSelector(sel) == IF sel = S_Cod THEN <<"c","o","d">> ELSE <<"c","o","d","e">>

\* pat is a contiguous part of s
Contains(pat, s) ==
    \/ pat = <<>>
    \/ \E i \in 1..Len(s) : \E j \in i..Len(s) : SubSeq(s, i, j) = pat

\* the enumerated processes whose name was read
Named == {e \in Range(arg.listing) : e.info = "ok"}

\* C9: resolve returns exactly the enumerated processes whose case-folded
\* name contains the case-folded selector, each once: "code", in any case,
\* matches "Code Helper", "VSCODE", "code" and "decode", and not "Spotify".
C9_ResolveFoldedSubstring ==
    (ret.done /\ arg.fn = "resolve" /\ ret.raised = "")
        => LET expected ==
                 {e.pid : e \in {x \in Named :
                    Contains(FoldedSelector(arg.app_name), FoldedName[x.pid])}}
           IN  /\ Range(ret.procs) = expected
               /\ Len(ret.procs) = Cardinality(expected)
               /\ arg.app_name \in {S_code, S_Code, S_CODE}
                     => expected = {e.pid : e \in Named} \cap {1, 2, 3, 4}

\* C9 witness: all five processes enumerated, the selector in upper case;
\* the four whose name contains "code" are returned, "Spotify" is not.
C9_Witness ==
    /\ ret.done
    /\ arg.app_name = S_CODE
    /\ Len(arg.listing) = 5
    /\ ret.procs = <<1, 2, 3, 4>>

\* C10: a run whose stop signal arrives before the first loop-top check
\* begins no tick, collects nothing, writes no file, never ends with an
\* error, and has reported that there is no data when it has returned.
C10_StopBeforeFirstTick ==
    sigPhase = "before_loop"
        => /\ tick = 0
           /\ snapshots = <<>>
           /\ built = <<>>
           /\ ~file.exists
           /\ writes = 0
           /\ pc \in {"start", "loop_top", "flush", "done"}
           /\ exc = ""
           /\ pc = "done" => report.kind = "nodata"

\* C10 witness: the signal came before the loop and run() has returned.
C10_Witness ==
    /\ sigPhase = "before_loop"
    /\ pc = "done"
    /\ report.kind = "nodata"
    /\ file = NoFile

\* C11: resolve never raises because of a single process: a process that
\* vanished or became inaccessible during enumeration, one whose name could
\* not be read included, is skipped, and the processes enumerated with a
\* readable name are still examined and returned if they match.
C11_ResolveSkipsInaccessible ==
    (ret.done /\ arg.fn = "resolve")
        => /\ ret.raised = ""
           /\ Range(ret.procs) =
                 {e.pid : e \in {x \in Named :
                    Contains(FoldedSelector(arg.app_name), FoldedName[x.pid])}}

\* C12: no partial snapshot is emitted.  While a build is in progress its
\* tick has added nothing to the buffer; when a system-wide read (or another
\* failure that is not per-process) ends the build, the error has left the
\* loop and the buffer holds what the earlier ticks appended and nothing of
\* the failed tick; and no buffered snapshot has a field that was not read
\* in its own tick (none was filled in with a zero instead).
C12_NoPartialSnapshot ==
    /\ Len(snapshots) = Len(built)
    /\ \A i \in DOMAIN snapshots : CompleteSnapshot(i)
    /\ pc \in BuildPcs => Len(snapshots) = tick - 1
    /\ (pc = "crashed" /\ exc \in {"ProviderError", "AttributeError"})
          => /\ Len(snapshots) = tick - 1
             /\ snapshots = [i \in 1..(tick - 1) |-> built[i].snapshot]

\* C12 witness: tick 1 was appended, a system-wide read failed in tick 2.
C12_Witness ==
    /\ pc = "crashed"
    /\ exc = "ProviderError"
    /\ tick = 2
    /\ Len(snapshots) = 1
    /\ CompleteSnapshot(1)

\* the progress lines due once n snapshots have been appended and reported
\* on: one per multiple of 10 up to n, with that tick's count and system CPU
ProgressUpTo(n) ==
    [k \in 1..(n \div 10) |->
        <<10 * k, built[10 * k].snapshot.total_system_cpu_percent>>]

\* C13: a progress line is emitted exactly on the ticks whose append brings
\* the session to a positive multiple of 10, and on no other; it carries
\* the count and that tick's system CPU; and emitting it changes neither
\* the buffer nor the stop flag nor the step that follows (the sleep).
C13_ProgressEveryTenth ==
    /\ [](progress = ProgressUpTo(IF pc = "progress"
                                  THEN Len(snapshots) - 1
                                  ELSE Len(snapshots)))
    /\ [][/\ progress' /= progress
             => /\ pc = "progress"
                /\ Len(snapshots) % 10 = 0
                /\ snapshots' = snapshots
                /\ running' = running
          /\ (pc = "progress" /\ pc' /= pc) => pc' = "sleep"]_vars

\* C13 witness: twenty ticks, the load having changed between the tenth and
\* the twentieth; both progress lines were emitted, each with its own value.
C13_Witness ==
    /\ Len(snapshots) = 20
    /\ pc = "sleeping"
    /\ progress = <<<<10, 35>>, <<20, 80>>>>

\* the state of the sampling loop's state machine the main thread is in;
\* "Aborted" is outside the machine: an exception has left run()
LoopState(p) ==
    CASE p = "start" -> "Idle"
      [] p \in ({"loop_top", "progress", "sleep", "sleeping"} \cup BuildPcs)
            -> "Running"
      [] p = "flush" -> "Stopping"
      [] p = "done" -> "Stopped"
      [] OTHER -> "Aborted"

\* C14: in a run of positive interval the loop moves Idle -> Running ->
\* Stopping -> Stopped and in no other way: it leaves Running only for
\* Stopping (the flush), and reaches Stopped only from Stopping, so that a
\* run stopped by a signal ends Stopped, flushed, as a normal termination.
C14_LoopStateMachine ==
    [][interval > 0
         => \/ LoopState(pc') = LoopState(pc)
            \/ <<LoopState(pc), LoopState(pc')>> \in
                  {<<"Idle", "Running">>, <<"Running", "Stopping">>,
                   <<"Stopping", "Stopped">>}]_vars

\* a tick has begun
TickBegun == tick >= 1

\* C15 as stated: before the first tick the CPU-percent baseline has been
\* primed by a non-blocking call and the handlers of both signals are
\* installed.
C15_PrimedNonBlocking ==
    TickBegun
        => /\ world.primed
           /\ world.primeBlockedMs = 0
           /\ world.handlers = {"SIGINT", "SIGTERM"}

\* C15 as amended: before the first tick the CPU-percent baseline has been
\* primed, by a call that blocks for 0.1 s, and the handlers of both signals
\* are installed (they are installed before the priming call): no system-CPU
\* read of a snapshot happens without a primed baseline, and no tick runs
\* without both handlers.
C15_PrimedBeforeFirstTick ==
    /\ (TickBegun \/ pc \in {"start", "loop_top"})
          => /\ world.primed
             /\ world.primeBlockedMs = PrimeIntervalMs
             /\ world.handlers = {"SIGINT", "SIGTERM"}
    /\ (world.primed \/ pc = "prime")
          => world.handlers = {"SIGINT", "SIGTERM"}
    /\ pc \in {"init", "reg_sigint", "reg_sigterm", "prime"}
          => (tick = 0 /\ snapshots = <<>> /\ ~world.primed)

\* C15 witness: the system CPU of the first snapshot has just been read.
C15_Witness ==
    /\ tick = 1
    /\ pc = "sys_mem"
    /\ readAt["total_system_cpu_percent"] = 1
    /\ world.primed
    /\ world.handlers = {"SIGINT", "SIGTERM"}

\* what a resolve of `app_name` can return now
ResolveResults(app_name) ==
    {r.procs : r \in {x \in {FindProcessesByName(app_name, l, world.procs) :
                                l \in Listings(world.procs, world.infoStatus)} :
                         x.raised = ""}}

\* the <<cpu, memory>> pairs an aggregate of `handles` can return now
AggregateResults(handles) ==
    {<<r.cpu, r.mem>> :
        r \in {x \in {AggregateProcessMetrics(handles, o, world.procs,
                                              world.memTotal) :
                         o \in Outcomes(handles, world.readStatus)} :
                  x.raised = ""}}

\* the step leaves position `p` of the build without an exception
Leaves(p) == pc = p /\ pc' /= p /\ pc' /= "crashed"

\* C16: process handles are resolved fresh on every tick: a tick starts with
\* no handles; a handle list is only ever written by that tick's own resolve
\* (or dropped); each aggregate returns the sums of exactly the list its
\* tick's resolve returned; and the order is resolve A, aggregate A, resolve
\* B, aggregate B.
C16_HandlesResolvedFresh ==
    [][/\ tick' /= tick
            => /\ loc'.foreground_procs = <<>>
               /\ loc'.background_procs = <<>>
       /\ loc'.foreground_procs /= loc.foreground_procs
            => \/ loc'.foreground_procs = <<>>
               \/ /\ Leaves("resolve_A")
                  /\ tick' = tick
                  /\ loc'.foreground_procs \in ResolveResults(foreground_app)
       /\ loc'.background_procs /= loc.background_procs
            => \/ loc'.background_procs = <<>>
               \/ /\ Leaves("resolve_B")
                  /\ tick' = tick
                  /\ loc'.background_procs \in ResolveResults(background_app)
       /\ Leaves("net") => pc' = "resolve_A"
       /\ Leaves("resolve_A") => pc' = "aggregate_A"
       /\ Leaves("aggregate_A")
            => /\ pc' = "resolve_B"
               /\ <<loc'.app_A_cpu, loc'.app_A_memory>>
                     \in AggregateResults(loc.foreground_procs)
               /\ loc'.foreground_procs = loc.foreground_procs
       /\ Leaves("resolve_B")
            => /\ pc' = "aggregate_B"
               /\ <<loc'.app_A_cpu, loc'.app_A_memory>>
                     = <<loc.app_A_cpu, loc.app_A_memory>>
       /\ Leaves("aggregate_B")
            => /\ pc' = "append"
               /\ <<loc'.app_B_cpu, loc'.app_B_memory>>
                     \in AggregateResults(loc.background_procs)
               /\ <<loc'.app_A_cpu, loc'.app_A_memory>>
                     = <<loc.app_A_cpu, loc.app_A_memory>>
       /\ (<<loc'.app_A_cpu, loc'.app_A_memory>>
                 /= <<loc.app_A_cpu, loc.app_A_memory>>
             /\ <<loc'.app_A_cpu, loc'.app_A_memory>> /= <<0, 0>>)
            => pc = "aggregate_A"
       /\ (<<loc'.app_B_cpu, loc'.app_B_memory>>
                 /= <<loc.app_B_cpu, loc.app_B_memory>>
             /\ <<loc'.app_B_cpu, loc'.app_B_memory>> /= <<0, 0>>)
            => pc = "aggregate_B"]_vars

\* C16 witness: the second tick has resolved and aggregated both applications,
\* each from its own handles.
C16_Witness ==
    /\ tick = 2
    /\ pc = "append"
    /\ loc.foreground_procs = <<1>>
    /\ loc.background_procs = <<2>>
    /\ loc.app_A_cpu = 12
    /\ loc.app_B_cpu = 7

\* the stop flag has been set (a first signal has been handled)
Signalled == sigPhase /= "none"

\* the number of snapshots the session held when the stop flag was set
SnapshotsAtSignal == IF sigPhase = "in_tick" THEN sigTick - 1 ELSE sigTick

\* C17: after the stop flag has been set at most one further snapshot is
\* appended, the one of the tick in progress, and none when the signal came
\* outside a tick (during the sleep included); the flag, once false, is never
\* true again, and no new tick starts once it is false.
C17_AtMostOneMoreSnapshot ==
    /\ [](Signalled
            => /\ ~running
               /\ tick = sigTick
               /\ Len(snapshots) >= SnapshotsAtSignal
               /\ Len(snapshots) <= SnapshotsAtSignal + 1
               /\ sigPhase /= "in_tick" => Len(snapshots) = SnapshotsAtSignal
               /\ Len(snapshots) = SnapshotsAtSignal + 1
                     => snapshots[Len(snapshots)] = built[sigTick].snapshot)
    /\ [][~running => (~running' /\ tick' = tick)]_vars

\* C17 witness: the signal came in the second tick, whose snapshot was
\* appended, and the loop was left at the next loop top.
C17_Witness ==
    /\ sigPhase = "in_tick"
    /\ sigTick = 2
    /\ Len(snapshots) = 2
    /\ pc = "done"

\* the handles of the call under test whose CPU read returns and whose memory
\* read then fails with a per-process error
HalfRead ==
    {p \in Range(arg.processes) :
        arg.outcome[p].cpu = "ok" /\ arg.outcome[p].mem \in PerProcessErrors}

\* the sets of handles whose CPU figures add up to the returned CPU sum, and
\* those whose memory figures add up to the returned memory sum (the figures
\* of AggregateProcs are distinct powers of two times a unit, so each sum has
\* one such set)
CpuContributors ==
    {S \in SUBSET Range(arg.processes) : SetSum(S, ExpectedCpu) = ret.cpu}
MemoryContributors ==
    {S \in SUBSET Range(arg.processes) : SetSum(S, ExpectedMemory) = ret.mem}

\* C18: in an aggregate that returns, each handle contributes all-or-nothing:
\* the CPU sum and the memory sum range over the same set of handles, and a
\* handle whose CPU read succeeds but whose memory read fails with a
\* per-process error is in neither.
C18_AllOrNothingPerHandle ==
    (ret.done /\ arg.fn = "aggregate" /\ ret.raised = "")
        => /\ Cardinality(CpuContributors) = 1
           /\ CpuContributors = MemoryContributors
           /\ \A S \in CpuContributors : S \cap HalfRead = {}

\* C18 witness: two handles; the first one's CPU read returns and its memory
\* read is denied, the second is read in full: only the second is in the sums.
C18_Witness ==
    /\ ret.done
    /\ arg.fn = "aggregate"
    /\ arg.processes = <<1, 2>>
    /\ arg.outcome[1] = [cpu |-> "ok", mem |-> "AccessDenied"]
    /\ arg.outcome[2] = [cpu |-> "ok", mem |-> "ok"]
    /\ ret.raised = ""
    /\ ret.cpu = 2
    /\ ret.mem = 10

====
